---- MODULE Spec2Model ----
(***************************************************************************)
(* A model of datalab_solutions/inception/_util.py: the command-line       *)
(* argument helper, the "latest" marker resolution and file listing, the   *)
(* construction of the input pipeline, and the running loss and accuracy   *)
(* metrics.  Text (paths, file contents) is a sequence of one-character    *)
(* strings, so that joining, stripping, splitting and glob matching are    *)
(* computed character by character as the Python code computes them.       *)
(***************************************************************************)
EXTENDS Integers, Sequences, FiniteSets, TLC

VARIABLES
  args,             \* the list handed to override_if_not_in_args
  argsCall,         \* the last call of it: flag, argument, the list before
  fs,               \* the file system: path -> contents of each existing file
  fileCall,         \* the last call of get_train_eval_files / get_labels
  fileOps,          \* the file operations that call performed, in order
  fileRet,          \* what that call returned or raised
  readCall,         \* the arguments of the last read_examples call
  pipeline,         \* the queues and ops that call built
  total_loss,       \* loss(): tf.Variable(0.0)
  loss_count,       \* loss(): tf.Variable(0)
  lossStep,         \* the training step in progress: its loss value, updates left
  lossFed,          \* the loss values of the completed steps, in order
  correct_count,    \* accuracy(): tf.Variable(0)
  incorrect_count,  \* accuracy(): tf.Variable(0)
  accStep,          \* the step in progress: its batch, the updates left
  accSeen           \* what the completed steps' batches held, by count

argVars == <<args, argsCall>>
fileVars == <<fs, fileCall, fileOps, fileRet>>
readVars == <<readCall, pipeline>>
lossVars == <<total_loss, loss_count, lossStep, lossFed>>
accVars == <<correct_count, incorrect_count, accStep, accSeen>>
vars == <<argVars, fileVars, readVars, lossVars, accVars>>

----------------------------------------------------------------------------
(* Bounds of the model. *)

MaxArgs == 3
MaxMarkerLen == 2
MaxLabelsLen == 3
MaxBatchSize == 3
MaxCpuCount == 3
MaxEpochs == 2
MaxLossValue == 2
MaxLossSteps == 3
MaxBatchLen == 2
MaxAccSteps == 2

----------------------------------------------------------------------------
(* Python's built-ins, as the code uses them. *)

\* An optional integer: None, or the integer n.
None == <<>>
Some(n) == <<n>>

\* Python's truth value of an optional integer: None and 0 are false.
Truthy(x) == x # None /\ x # Some(0)

\* x or y
PyOr(x, y) == IF Truthy(x) THEN x ELSE y

\* All sequences over alphabet of length at most n.
StringsUpTo(alphabet, n) == UNION {[1..k -> alphabet] : k \in 0..n}

\* x in list
InList(x, list) == \E i \in 1..Len(list) : list[i] = x

\* list.extend(more)
Extend(list, more) == list \o more

----------------------------------------------------------------------------
(* override_if_not_in_args *)

Flags == {"--batch_size", "--max_steps"}
Values == {"10", "--max_steps"}
Tokens == Flags \cup Values

OverrideAlways(flag, argument, list) == Extend(list, <<flag, argument>>)

\* The list after override_if_not_in_args(flag, argument, list).
OverrideIfNotInArgs(flag, argument, list) ==
  IF ~InList(flag, list) THEN Extend(list, <<flag, argument>>) ELSE list

NoArgsCall == [called |-> FALSE, flag |-> "", argument |-> "", before |-> <<>>]

override_if_not_in_args(flag, argument) ==
  /\ argsCall' = [called |-> TRUE, flag |-> flag, argument |-> argument,
                  before |-> args]
  /\ args' = OverrideIfNotInArgs(flag, argument, args)
  /\ UNCHANGED <<fileVars, readVars, lossVars, accVars>>

ArgsIdle == args = <<>> /\ argsCall = NoArgsCall

----------------------------------------------------------------------------
(* Text: str.rstrip(), str.split(sep), os.path.join, glob matching. *)

\* The characters str.rstrip() removes that the model's files can hold.
Whitespace == {" ", "\n", "\t", "\r"}

RECURSIVE rstrip(_)
\* s.rstrip(): s without its trailing whitespace.
rstrip(s) ==
  IF s # <<>> /\ s[Len(s)] \in Whitespace
  THEN rstrip(SubSeq(s, 1, Len(s) - 1))
  ELSE s

RECURSIVE split(_, _)
\* s.split(sep) for a one-character sep: the pieces between the separators;
\* the empty string splits into one empty piece.
split(s, sep) ==
  IF \E i \in 1..Len(s) : s[i] = sep
  THEN LET i == CHOOSE j \in 1..Len(s) :
                  s[j] = sep /\ \A k \in 1..(j - 1) : s[k] # sep
       IN <<SubSeq(s, 1, i - 1)>> \o split(SubSeq(s, i + 1, Len(s)), sep)
  ELSE <<s>>

\* os.path.join(a, b) of posixpath: an absolute b discards a.
os_path_join(a, b) ==
  IF b # <<>> /\ b[1] = "/" THEN b
  ELSE IF a = <<>> \/ a[Len(a)] = "/" THEN a \o b
  ELSE a \o <<"/">> \o b

RECURSIVE fnmatch(_, _)
\* Whether path s matches glob pattern p, where "*" stands for any run of
\* characters other than "/".
fnmatch(p, s) ==
  IF p = <<>> THEN s = <<>>
  ELSE IF p[1] = "*"
       THEN \/ fnmatch(Tail(p), s)
            \/ s # <<>> /\ s[1] # "/" /\ fnmatch(p, Tail(s))
       ELSE s # <<>> /\ s[1] = p[1] /\ fnmatch(Tail(p), Tail(s))

\* ml.util._file.file_exists(path)
file_exists(fsys, path) == path \in DOMAIN fsys

\* ml.util._file.glob_files(pattern) and file_io.get_matching_files(pattern):
\* the existing files the pattern matches.
glob_files(fsys, pattern) == {f \in DOMAIN fsys : fnmatch(pattern, f)}

----------------------------------------------------------------------------
(* The names the code gives its files. *)

LatestName == <<"l", "a", "t", "e", "s", "t">>
LabelsName == <<"l", "a", "b", "e", "l", "s">>
TrainGlob == <<"t", "r", "a", "i", "n", "*",
               ".", "t", "f", "r", "e", "c", "o", "r", "d", ".", "g", "z">>
EvalGlob == <<"e", "v", "a", "l", "*",
              ".", "t", "f", "r", "e", "c", "o", "r", "d", ".", "g", "z">>
LatestMissing ==
  "Cannot find \"latest\" file in \"%s\". Please use a preprocessing output dir."

\* An operation on the file system, as the log records it.
FileOp(op, path) == [op |-> op, path |-> path]

\* template % arg, kept as the template and the value put in its %s.
Format(template, arg) == [template |-> template, arg |-> arg]

NoException == [type |-> "", msg |-> Format("", <<>>)]

----------------------------------------------------------------------------
(* _get_latest_data_dir, get_train_eval_files, get_labels *)

\* _get_latest_data_dir opening the marker before it checks that it exists.
GetLatestDataDirOpenFirst(fsys, input_dir) ==
  LET latest_file == os_path_join(input_dir, LatestName)
      ops == <<FileOp("open", latest_file), FileOp("file_exists", latest_file)>>
  IN IF ~file_exists(fsys, latest_file)
     THEN [raised |-> TRUE,
           exc |-> [type |-> "IOError", msg |-> Format("%s", latest_file)],
           dir |-> <<>>,
           ops |-> <<FileOp("open", latest_file)>>]
     ELSE [raised |-> FALSE,
           exc |-> NoException,
           dir |-> os_path_join(input_dir, rstrip(fsys[latest_file])),
           ops |-> ops]

\* _get_latest_data_dir using the marker's contents as read, not stripped.
GetLatestDataDirNoStrip(fsys, input_dir) ==
  LET latest_file == os_path_join(input_dir, LatestName)
      checked == <<FileOp("file_exists", latest_file)>>
  IN IF ~file_exists(fsys, latest_file)
     THEN [raised |-> TRUE,
           exc |-> [type |-> "Exception",
                    msg |-> Format(LatestMissing, input_dir)],
           dir |-> <<>>,
           ops |-> checked]
     ELSE [raised |-> FALSE,
           exc |-> NoException,
           dir |-> os_path_join(input_dir, fsys[latest_file]),
           ops |-> checked \o <<FileOp("open", latest_file)>>]

\* The outcome of _get_latest_data_dir(input_dir) on file system fsys: the
\* directory it returns or the exception it raises, and the file operations
\* it performed.
GetLatestDataDir(fsys, input_dir) ==
  LET latest_file == os_path_join(input_dir, LatestName)
      checked == <<FileOp("file_exists", latest_file)>>
  IN IF ~file_exists(fsys, latest_file)
     THEN [raised |-> TRUE,
           exc |-> [type |-> "Exception",
                    msg |-> Format(LatestMissing, input_dir)],
           dir |-> <<>>,
           ops |-> checked]
     ELSE LET dir_name == rstrip(fsys[latest_file])
          IN [raised |-> FALSE,
              exc |-> NoException,
              dir |-> os_path_join(input_dir, dir_name),
              ops |-> checked \o <<FileOp("open", latest_file)>>]

\* The outcome of get_train_eval_files(input_dir).
GetTrainEvalFiles(fsys, input_dir) ==
  LET latest == GetLatestDataDir(fsys, input_dir)
      train_pattern == os_path_join(latest.dir, TrainGlob)
      eval_pattern == os_path_join(latest.dir, EvalGlob)
  IN IF latest.raised
     THEN [raised |-> TRUE, exc |-> latest.exc, ops |-> latest.ops,
           train_files |-> {}, eval_files |-> {}, labels |-> <<>>]
     ELSE [raised |-> FALSE, exc |-> NoException,
           ops |-> latest.ops \o <<FileOp("glob", train_pattern),
                                   FileOp("glob", eval_pattern)>>,
           train_files |-> glob_files(fsys, train_pattern),
           eval_files |-> glob_files(fsys, eval_pattern),
           labels |-> <<>>]

\* The outcome of get_labels(input_dir).  Opening a labels file that does not
\* exist raises the file layer's own error.
GetLabels(fsys, input_dir) ==
  LET latest == GetLatestDataDir(fsys, input_dir)
      labels_file == os_path_join(latest.dir, LabelsName)
      opened == latest.ops \o <<FileOp("open", labels_file)>>
  IN IF latest.raised
     THEN [raised |-> TRUE, exc |-> latest.exc, ops |-> latest.ops,
           train_files |-> {}, eval_files |-> {}, labels |-> <<>>]
     ELSE IF ~file_exists(fsys, labels_file)
     THEN [raised |-> TRUE,
           exc |-> [type |-> "IOError", msg |-> Format("%s", labels_file)],
           ops |-> opened,
           train_files |-> {}, eval_files |-> {}, labels |-> <<>>]
     ELSE [raised |-> FALSE, exc |-> NoException, ops |-> opened,
           train_files |-> {}, eval_files |-> {},
           labels |-> split(rstrip(fsys[labels_file]), "\n")]

NoFileCall == [fn |-> "", input_dir |-> <<>>]
NoFileRet == [raised |-> FALSE, exc |-> NoException, ops |-> <<>>,
              train_files |-> {}, eval_files |-> {}, labels |-> <<>>]

get_train_eval_files(input_dir) ==
  LET out == GetTrainEvalFiles(fs, input_dir)
  IN /\ fileCall' = [fn |-> "get_train_eval_files", input_dir |-> input_dir]
     /\ fileOps' = out.ops
     /\ fileRet' = out
     /\ UNCHANGED <<fs, argVars, readVars, lossVars, accVars>>

get_labels(input_dir) ==
  LET out == GetLabels(fs, input_dir)
  IN /\ fileCall' = [fn |-> "get_labels", input_dir |-> input_dir]
     /\ fileOps' = out.ops
     /\ fileRet' = out
     /\ UNCHANGED <<fs, argVars, readVars, lossVars, accVars>>

----------------------------------------------------------------------------
(* The file systems the model starts from: a preprocessing output directory *)
(* "d" with versions "a" and "b", with or without its marker; "e" is a      *)
(* directory without one.                                                   *)

Path(dir, name) == dir \o <<"/">> \o name

ShardName(stem) ==
  stem \o <<".", "t", "f", "r", "e", "c", "o", "r", "d", ".", "g", "z">>

DirD == <<"d">>
DirA == Path(DirD, <<"a">>)
DirB == Path(DirD, <<"b">>)
InputDirs == {DirD, DirD \o <<"/">>, <<"e">>}

MarkerContents == StringsUpTo({"a", "/", "\n", " "}, MaxMarkerLen)
LabelsContents == StringsUpTo({"x", "\n", " "}, MaxLabelsLen)

ShardCandidates ==
  { Path(DirA, ShardName(<<"t", "r", "a", "i", "n">>)),
    Path(DirA, ShardName(<<"e", "v", "a", "l">>)),
    Path(DirB, ShardName(<<"t", "r", "a", "i", "n">>)),
    Path(DirD, ShardName(<<"t", "r", "a", "i", "n">>)),
    Path(DirA, ShardName(<<"t", "r", "a", "i", "n", "/", "x">>)) }

NoFiles == [f \in {} |-> <<>>]
OneFile(path, content) == [f \in {path} |-> content]
Merge(f, g) ==
  [x \in DOMAIN f \cup DOMAIN g |-> IF x \in DOMAIN f THEN f[x] ELSE g[x]]

MarkerPath == Path(DirD, LatestName)
LabelsPath == Path(DirA, LabelsName)
UsualMarker == OneFile(MarkerPath, <<"a", "\n">>)
UsualLabels == OneFile(LabelsPath, <<"x", "\n", "x", "\n">>)
UsualShards == [f \in ShardCandidates |-> <<>>]
UsualFs == Merge(UsualMarker, Merge(UsualLabels, UsualShards))

\* Any marker and any set of shard files, or any labels file.
FileSystems ==
  { Merge(m, Merge(l, [f \in sh |-> <<>>])) :
      m \in {NoFiles} \cup {OneFile(MarkerPath, c) : c \in MarkerContents},
      l \in {NoFiles, UsualLabels},
      sh \in SUBSET ShardCandidates }
  \cup
  { Merge(m, OneFile(LabelsPath, c)) :
      m \in {NoFiles, UsualMarker}, c \in LabelsContents }

FilesIdle ==
  /\ fs = UsualFs
  /\ fileCall = NoFileCall
  /\ fileOps = <<>>
  /\ fileRet = NoFileRet

----------------------------------------------------------------------------
(* read_examples *)

min_after_dequeue == 1000

RECURSIVE Flatten(_)
\* The concatenation of a list of lists.
Flatten(lists) ==
  IF lists = <<>> THEN <<>> ELSE lists[1] \o Flatten(Tail(lists))

\* The list files after the two loops: for each element of input_files and
\* each comma-separated path of it, the files matching the path (each path's
\* matches kept as one set, their order being the file layer's).
MatchingFiles(fsys, input_files) ==
  Flatten([i \in 1..Len(input_files) |->
             LET paths == split(input_files[i], ",")
             IN [j \in 1..Len(paths) |-> glob_files(fsys, paths[j])]])

EpochLimitAsGiven(num_epochs) == num_epochs

\* num_epochs = num_epochs or None
EpochLimit(num_epochs) == PyOr(num_epochs, None)

QueueCapacityNoMargin(shuffle, thread_count, batch_size) ==
  IF shuffle THEN min_after_dequeue + thread_count * batch_size
  ELSE thread_count * batch_size

\* capacity, from queue_size_multiplier = thread_count + 3.
QueueCapacity(shuffle, thread_count, batch_size) ==
  LET queue_size_multiplier == thread_count + 3
  IN IF shuffle THEN min_after_dequeue + queue_size_multiplier * batch_size
     ELSE queue_size_multiplier * batch_size

BatcherSequentialOnly(shuffle, thread_count, batch_size) ==
  [op |-> "batch", batch_size |-> batch_size,
   capacity |-> QueueCapacity(FALSE, thread_count, batch_size),
   min_after_dequeue |-> None, enqueue_many |-> TRUE,
   num_threads |-> thread_count]

\* The batching op read_examples returns: tf.train.shuffle_batch when shuffle,
\* tf.train.batch otherwise.
Batcher(shuffle, thread_count, batch_size) ==
  IF shuffle
  THEN [op |-> "shuffle_batch", batch_size |-> batch_size,
        capacity |-> QueueCapacity(TRUE, thread_count, batch_size),
        min_after_dequeue |-> Some(min_after_dequeue), enqueue_many |-> TRUE,
        num_threads |-> thread_count]
  ELSE [op |-> "batch", batch_size |-> batch_size,
        capacity |-> QueueCapacity(FALSE, thread_count, batch_size),
        min_after_dequeue |-> None, enqueue_many |-> TRUE,
        num_threads |-> thread_count]

\* What read_examples(input_files, batch_size, shuffle, num_epochs) builds on
\* a machine of cpu_count cores.
ReadExamples(fsys, input_files, batch_size, shuffle, num_epochs, cpu_count) ==
  LET files == MatchingFiles(fsys, input_files)
      thread_count == cpu_count
  IN [filename_queue |->
        [op |-> "string_input_producer", string_tensor |-> files,
         num_epochs |-> EpochLimit(num_epochs), shuffle |-> shuffle],
      reader |->
        [op |-> "TFRecordReader.read_up_to", compression_type |-> "GZIP",
         num_records |-> batch_size],
      batcher |-> Batcher(shuffle, thread_count, batch_size)]

InputFileLists ==
  { <<>>,
    <<Path(DirA, TrainGlob)>>,
    <<Path(DirA, TrainGlob) \o <<",">> \o Path(DirB, TrainGlob),
      Path(DirA, EvalGlob)>> }

read_examples(input_files, batch_size, shuffle, num_epochs, cpu_count) ==
  /\ readCall' = <<[input_files |-> input_files, batch_size |-> batch_size,
                    shuffle |-> shuffle, num_epochs |-> num_epochs,
                    cpu_count |-> cpu_count]>>
  /\ pipeline' = <<ReadExamples(fs, input_files, batch_size, shuffle,
                                num_epochs, cpu_count)>>
  /\ UNCHANGED <<fs, fileCall, fileOps, fileRet, argVars, lossVars, accVars>>


----------------------------------------------------------------------------
(* TensorFlow's numbers.  A float32 value is held exactly, as an integer or *)
(* as a quotient of two; the model's loss values and counts are integers    *)
(* float32 represents, so that sums of them are exact.                      *)

\* a + b on int32: the sum, brought back into -2^31 .. 2^31 - 1 by 2^32 when
\* it leaves that range.
AddInt32(a, b) ==
  IF b > 0 /\ a > 2147483647 - b
  THEN (a - 2147483647 - 1) + (b - 2147483647 - 1)
  ELSE IF b < 0 /\ a < (-2147483647 - 1) - b
  THEN (a + 2147483647 + 1) + (b + 2147483647 + 1)
  ELSE a + b

Abs(x) == IF x < 0 THEN -x ELSE x

RECURSIVE Ulp(_, _)
\* The spacing of the float32 values around magnitude m >= 0: the least power
\* of two u, from u on, with m < 2^24 * u.
Ulp(m, u) == IF m \div u < 16777216 THEN u ELSE Ulp(m, 2 * u)

\* tf.cast(n, tf.float32) of an int32 n: n rounded to 24 significant bits,
\* halves to even.
CastFloat32(n) ==
  LET u == Ulp(Abs(n), 1)
      q == Abs(n) \div u
      r == Abs(n) % u
      up == 2 * r > u \/ (2 * r = u /\ q % 2 = 1)
      m == (IF up THEN q + 1 ELSE q) * u
  IN IF n < 0 THEN -m ELSE m

RECURSIVE Gcd(_, _)
Gcd(a, b) == IF b = 0 THEN a ELSE Gcd(b, a % b)

\* x / y on floats: a quotient in lowest terms with a positive denominator,
\* or what IEEE division by zero gives.
Divide(x, y) ==
  IF y = 0
  THEN [kind |-> IF x = 0 THEN "nan" ELSE IF x > 0 THEN "inf" ELSE "-inf",
        num |-> 0, den |-> 1]
  ELSE LET g == Gcd(Abs(x), Abs(y))
           sign == IF y < 0 THEN -1 ELSE 1
       IN [kind |-> "finite", num |-> sign * (x \div g),
           den |-> sign * (y \div g)]

----------------------------------------------------------------------------
(* loss *)

LossValues == (-1)..MaxLossValue
LossUpdates == {"total_loss_update", "loss_count_update"}

TotalLossAssigned(total, loss_value) == loss_value

\* total_loss_update = tf.assign_add(total_loss, loss_value)
TotalLossUpdated(total, loss_value) == total + loss_value

\* loss_count_update = tf.assign_add(loss_count, 1)
LossCountUpdated(count) == AddInt32(count, 1)

\* loss_op = total_loss / tf.cast(loss_count, tf.float32), as it evaluates in
\* the current state.
LossOp == Divide(total_loss, CastFloat32(loss_count))

\* A training step starts: session.run of the two update ops on one value of
\* the loss tensor.
BeginLossStep(loss_value) ==
  /\ lossStep = <<>>
  /\ Len(lossFed) < MaxLossSteps
  /\ lossStep' = <<[loss_value |-> loss_value, left |-> LossUpdates]>>
  /\ UNCHANGED <<total_loss, loss_count, lossFed>>
  /\ UNCHANGED <<argVars, fileVars, readVars, accVars>>

\* The step's bookkeeping once update op has run: the step is over when both
\* have.
LossStepAfter(op) ==
  LET left == lossStep[1].left \ {op}
  IN IF left = {}
     THEN /\ lossStep' = <<>>
          /\ lossFed' = Append(lossFed, lossStep[1].loss_value)
     ELSE /\ lossStep' = <<[lossStep[1] EXCEPT !.left = left]>>
          /\ UNCHANGED lossFed

total_loss_update ==
  /\ lossStep # <<>>
  /\ "total_loss_update" \in lossStep[1].left
  /\ total_loss' = TotalLossUpdated(total_loss, lossStep[1].loss_value)
  /\ LossStepAfter("total_loss_update")
  /\ UNCHANGED loss_count
  /\ UNCHANGED <<argVars, fileVars, readVars, accVars>>

loss_count_update ==
  /\ lossStep # <<>>
  /\ "loss_count_update" \in lossStep[1].left
  /\ loss_count' = LossCountUpdated(loss_count)
  /\ LossStepAfter("loss_count_update")
  /\ UNCHANGED total_loss
  /\ UNCHANGED <<argVars, fileVars, readVars, accVars>>

----------------------------------------------------------------------------
(* accuracy *)

Classes == {0, 1}
LogitValues == {0, 1}

\* An example: its logits, one per class, and its label.
Examples == [logits : [Classes -> LogitValues], label : Classes]
Batches == UNION {[1..n -> Examples] : n \in 1..MaxBatchLen}

\* tf.nn.in_top_k(logits, labels, k) for one example: fewer than k classes
\* score above the label's class (classes tied with it do not count).
in_top_k(example, k) ==
  Cardinality({c \in Classes : example.logits[c] > example.logits[example.label]})
    < k

\* tf.cast of a boolean to int32.
CastInt32(b) == IF b THEN 1 ELSE 0

RECURSIVE reduce_sum(_)
\* tf.reduce_sum of an int32 vector.
reduce_sum(v) == IF v = <<>> THEN 0 ELSE AddInt32(v[1], reduce_sum(Tail(v)))

\* is_correct = tf.nn.in_top_k(logits, labels, 1)
IsCorrect(batch) == [i \in 1..Len(batch) |-> in_top_k(batch[i], 1)]

\* correct = tf.reduce_sum(tf.cast(is_correct, tf.int32))
Correct(batch) ==
  reduce_sum([i \in 1..Len(batch) |-> CastInt32(IsCorrect(batch)[i])])

IncorrectWithoutNot(batch) ==
  reduce_sum([i \in 1..Len(batch) |-> CastInt32(IsCorrect(batch)[i])])

\* incorrect = tf.reduce_sum(tf.cast(tf.logical_not(is_correct), tf.int32))
Incorrect(batch) ==
  reduce_sum([i \in 1..Len(batch) |-> CastInt32(~IsCorrect(batch)[i])])

CountAssigned(count, delta) == delta

\* tf.assign_add(count, delta) on an int32 variable.
CountUpdated(count, delta) == AddInt32(count, delta)

\* accuracy_op = tf.cast(correct_count, tf.float32)
\*               / tf.cast(correct_count + incorrect_count, tf.float32),
\* as it evaluates in the current state.
AccuracyOp ==
  Divide(CastFloat32(correct_count),
         CastFloat32(AddInt32(correct_count, incorrect_count)))

AccUpdates == {"correct_count_update", "incorrect_count_update"}
NothingSeen ==
  [steps |-> 0, examples |-> 0, top1 |-> 0, lastExamples |-> 0, lastTop1 |-> 0]

\* Whether no class of the example scores above its label's class.
LabelIsTop1(example) ==
  \A c \in Classes : example.logits[c] <= example.logits[example.label]

\* A step starts: session.run of the two update ops on one batch.
BeginAccStep(batch) ==
  /\ accStep = <<>>
  /\ accSeen.steps < MaxAccSteps
  /\ accStep' = <<[batch |-> batch, left |-> AccUpdates]>>
  /\ UNCHANGED <<correct_count, incorrect_count, accSeen>>
  /\ UNCHANGED <<argVars, fileVars, readVars, lossVars>>

\* The step's bookkeeping once update op has run.
AccStepAfter(op) ==
  LET left == accStep[1].left \ {op}
      batch == accStep[1].batch
      top1 == Cardinality({i \in 1..Len(batch) : LabelIsTop1(batch[i])})
  IN IF left = {}
     THEN /\ accStep' = <<>>
          /\ accSeen' =
               [steps |-> accSeen.steps + 1,
                examples |-> accSeen.examples + Len(batch),
                top1 |-> accSeen.top1 + top1,
                lastExamples |-> Len(batch),
                lastTop1 |-> top1]
     ELSE /\ accStep' = <<[accStep[1] EXCEPT !.left = left]>>
          /\ UNCHANGED accSeen

correct_count_update ==
  /\ accStep # <<>>
  /\ "correct_count_update" \in accStep[1].left
  /\ correct_count' = CountUpdated(correct_count, Correct(accStep[1].batch))
  /\ AccStepAfter("correct_count_update")
  /\ UNCHANGED incorrect_count
  /\ UNCHANGED <<argVars, fileVars, readVars, lossVars>>

incorrect_count_update ==
  /\ accStep # <<>>
  /\ "incorrect_count_update" \in accStep[1].left
  /\ incorrect_count' =
       CountUpdated(incorrect_count, Incorrect(accStep[1].batch))
  /\ AccStepAfter("incorrect_count_update")
  /\ UNCHANGED correct_count
  /\ UNCHANGED <<argVars, fileVars, readVars, lossVars>>


----------------------------------------------------------------------------
(* The specifications, one per group of functions. *)

ReadIdle == readCall = <<>> /\ pipeline = <<>>
LossIdle ==
  total_loss = 0 /\ loss_count = 0 /\ lossStep = <<>> /\ lossFed = <<>>
AccIdle ==
  /\ correct_count = 0 /\ incorrect_count = 0 /\ accStep = <<>>
  /\ accSeen = NothingSeen

InitArgs ==
  /\ args \in StringsUpTo(Tokens, MaxArgs)
  /\ argsCall = NoArgsCall
  /\ FilesIdle /\ ReadIdle /\ LossIdle /\ AccIdle

NextArgs ==
  \E flag \in Flags, argument \in Values :
    override_if_not_in_args(flag, argument)

SpecArgs == InitArgs /\ [][NextArgs]_vars

InitFiles ==
  /\ fs \in FileSystems
  /\ fileCall = NoFileCall
  /\ fileOps = <<>>
  /\ fileRet = NoFileRet
  /\ ArgsIdle /\ ReadIdle /\ LossIdle /\ AccIdle

NextFiles ==
  \E input_dir \in InputDirs :
    \/ get_train_eval_files(input_dir)
    \/ get_labels(input_dir)

SpecFiles == InitFiles /\ [][NextFiles]_vars

InitRead == ArgsIdle /\ FilesIdle /\ ReadIdle /\ LossIdle /\ AccIdle

NextRead ==
  \E input_files \in InputFileLists, batch_size \in 0..MaxBatchSize,
     shuffle \in BOOLEAN, cpu_count \in 1..MaxCpuCount,
     num_epochs \in {None} \cup {Some(n) : n \in 0..MaxEpochs} :
    read_examples(input_files, batch_size, shuffle, num_epochs, cpu_count)

SpecRead == InitRead /\ [][NextRead]_vars

InitLoss == ArgsIdle /\ FilesIdle /\ ReadIdle /\ LossIdle /\ AccIdle

NextLoss ==
  \/ \E loss_value \in LossValues : BeginLossStep(loss_value)
  \/ total_loss_update
  \/ loss_count_update

SpecLoss == InitLoss /\ [][NextLoss]_vars

InitAcc == ArgsIdle /\ FilesIdle /\ ReadIdle /\ LossIdle /\ AccIdle

NextAcc ==
  \/ \E batch \in Batches : BeginAccStep(batch)
  \/ correct_count_update
  \/ incorrect_count_update

SpecAcc == InitAcc /\ [][NextAcc]_vars

----------------------------------------------------------------------------
(* Properties of override_if_not_in_args. *)

\* C1: after override_if_not_in_args(flag, argument, args), if flag was not
\* an element of args the list is the old list followed by flag, argument
\* and nothing else; if it was, the list is as before; either way flag is an
\* element of the list afterwards.
C1_OverrideFrame ==
  argsCall.called =>
    LET before == argsCall.before
        n == Len(before)
        present == \E i \in 1..n : before[i] = argsCall.flag
    IN /\ ~present =>
            /\ Len(args) = n + 2
            /\ \A i \in 1..n : args[i] = before[i]
            /\ args[n + 1] = argsCall.flag
            /\ args[n + 2] = argsCall.argument
       /\ present => args = before
       /\ \E i \in 1..Len(args) : args[i] = argsCall.flag

\* A call that appended to a non-empty list holding another flag.
C1_Witness ==
  /\ argsCall.called
  /\ argsCall.before # <<>>
  /\ \A i \in 1..Len(argsCall.before) : argsCall.before[i] # argsCall.flag
  /\ Len(args) = Len(argsCall.before) + 2

----------------------------------------------------------------------------
(* Properties of the marker resolution and the file listing. *)

\* Whether input_dir holds a "latest" file.
HasMarker(input_dir) ==
  \E f \in DOMAIN fs :
    \/ f = input_dir \o <<"/">> \o LatestName
    \/ input_dir # <<>> /\ input_dir[Len(input_dir)] = "/"
         /\ f = input_dir \o LatestName

\* C2: for an input_dir without a "latest" file, get_train_eval_files and
\* get_labels both raise the 'Cannot find "latest" file' exception naming
\* input_dir, and the existence check is the only file operation they perform.
C2_MissingMarkerRaises ==
  (fileCall.fn # "" /\ ~HasMarker(fileCall.input_dir)) =>
    /\ fileRet.raised
    /\ fileRet.exc.type = "Exception"
    /\ fileRet.exc.msg.template = LatestMissing
    /\ fileRet.exc.msg.arg = fileCall.input_dir
    /\ Len(fileOps) = 1
    /\ fileOps[1].op = "file_exists"
    /\ fileRet.train_files = {} /\ fileRet.eval_files = {}
    /\ fileRet.labels = <<>>

\* get_labels called on a directory whose marker is missing although the
\* versions and their files are there.
C2_Witness ==
  /\ fileCall.fn = "get_labels"
  /\ ~HasMarker(fileCall.input_dir)
  /\ LabelsPath \in DOMAIN fs
  /\ fileRet.raised

\* The position of the last "/" of path f, 0 when it has none.
LastSlash(f) ==
  IF \E i \in 1..Len(f) : f[i] = "/"
  THEN CHOOSE i \in 1..Len(f) :
         f[i] = "/" /\ \A j \in (i + 1)..Len(f) : f[j] # "/"
  ELSE 0

DirOf(f) == SubSeq(f, 1, LastSlash(f) - 1)
BaseOf(f) == SubSeq(f, LastSlash(f) + 1, Len(f))

StartsWith(s, prefix) ==
  Len(s) >= Len(prefix) /\ SubSeq(s, 1, Len(prefix)) = prefix
EndsWith(s, suffix) ==
  Len(s) >= Len(suffix)
    /\ SubSeq(s, Len(s) - Len(suffix) + 1, Len(s)) = suffix

\* Whether file f lies directly in directory dir and its name is stem,
\* anything, ".tfrecord.gz".
ShardIn(f, dir, stem) ==
  /\ \/ DirOf(f) = dir
     \/ dir # <<>> /\ dir[Len(dir)] = "/" /\ DirOf(f) \o <<"/">> = dir
  /\ StartsWith(BaseOf(f), stem)
  /\ EndsWith(BaseOf(f), ShardName(<<>>))
  /\ Len(BaseOf(f)) >= Len(stem) + Len(ShardName(<<>>))

\* The marker's contents without the whitespace at their end.
Stripped(c) ==
  LET k == CHOOSE n \in 0..Len(c) :
             /\ \A i \in (n + 1)..Len(c) : c[i] \in Whitespace
             /\ n > 0 => c[n] \notin Whitespace
  IN SubSeq(c, 1, k)

MarkerOf(input_dir) == fs[os_path_join(input_dir, LatestName)]

LineCount(t) ==
  IF t = <<>> THEN 0
  ELSE 1 + Cardinality({i \in 1..Len(t) : t[i] = "\n"})

RECURSIVE JoinLines(_)
\* The lines put back together with a line break between two of them.
JoinLines(lines) ==
  IF lines = <<>> THEN <<>>
  ELSE IF Len(lines) = 1 THEN lines[1]
  ELSE lines[1] \o <<"\n">> \o JoinLines(Tail(lines))

\* The contents of the labels file the last get_labels call read.
LabelsRead == fs[fileOps[Len(fileOps)].path]

\* C7: get_labels returns one entry per line of the labels file, in file
\* order, the whitespace and line breaks at the end of the file producing no
\* entry: as many entries as the file has label lines.
C7_OneEntryPerLine ==
  (fileCall.fn = "get_labels" /\ ~fileRet.raised) =>
    LET text == Stripped(LabelsRead)
    IN /\ Len(fileRet.labels) = LineCount(text)
       /\ \A i \in 1..Len(fileRet.labels) :
            \A j \in 1..Len(fileRet.labels[i]) : fileRet.labels[i][j] # "\n"
       /\ JoinLines(fileRet.labels) = text

\* The same for a labels file that holds at least one label.
C7_OneEntryPerLineNonEmpty ==
  (fileCall.fn = "get_labels" /\ ~fileRet.raised
     /\ Stripped(LabelsRead) # <<>>) =>
    LET text == Stripped(LabelsRead)
    IN /\ Len(fileRet.labels) = LineCount(text)
       /\ \A i \in 1..Len(fileRet.labels) :
            \A j \in 1..Len(fileRet.labels[i]) : fileRet.labels[i][j] # "\n"
       /\ JoinLines(fileRet.labels) = text

----------------------------------------------------------------------------
(* Properties of read_examples. *)

C8_ZeroEpochsMeansNoLimit ==
  readCall # <<>> =>
    LET given == readCall[1].num_epochs
        passed == pipeline[1].filename_queue.num_epochs
    IN /\ (given = None \/ given = Some(0)) => passed = None
       /\ (given # None /\ given # Some(0) /\ given[1] > 0) => passed = given

\* A call with num_epochs = 0.
C8_Witness ==
  /\ readCall # <<>>
  /\ readCall[1].num_epochs = Some(0)
  /\ pipeline[1].filename_queue.num_epochs = None

\* C9: the capacity is (num_threads + 3) * batch_size without shuffling and
\* 1000 + (num_threads + 3) * batch_size with it; so for batch_size >= 1 it
\* exceeds batch_size, and with shuffling it exceeds min_after_dequeue = 1000
\* by at least one batch.
C9_QueueCapacity ==
  readCall # <<>> =>
    LET call == readCall[1]
        b == pipeline[1].batcher
    IN /\ ~call.shuffle => b.capacity = (b.num_threads + 3) * b.batch_size
       /\ call.shuffle =>
            /\ b.capacity = 1000 + (b.num_threads + 3) * b.batch_size
            /\ b.min_after_dequeue = Some(1000)
       /\ (call.batch_size >= 1 /\ call.cpu_count >= 1) =>
            /\ b.capacity > call.batch_size
            /\ call.shuffle => b.capacity - 1000 >= call.batch_size

\* A shuffling call with a batch size above one.
C9_Witness ==
  /\ readCall # <<>>
  /\ readCall[1].shuffle
  /\ readCall[1].batch_size > 1
  /\ pipeline[1].batcher.capacity > 1000 + readCall[1].batch_size

----------------------------------------------------------------------------
(* Properties of loss and accuracy. *)

RECURSIVE Sum(_)
Sum(values) == IF values = <<>> THEN 0 ELSE values[1] + Sum(Tail(values))

\* C4: after k >= 1 steps, each having run both update ops, loss_count is k,
\* total_loss is the sum of the k loss values and loss_op evaluates to that sum
\* divided by k, the mean loss of all the steps.
C4_MeanLoss ==
  (lossStep = <<>> /\ lossFed # <<>>) =>
    LET k == Len(lossFed)
    IN /\ loss_count = k
       /\ total_loss = Sum(lossFed)
       /\ LossOp.kind = "finite"
       /\ LossOp.num * k = Sum(lossFed) * LossOp.den

\* Three steps done whose last loss value is not the mean.
C4_Witness ==
  /\ lossStep = <<>>
  /\ Len(lossFed) = 3
  /\ lossFed[3] * 3 # Sum(lossFed)
  /\ total_loss # 0

\* C3: after n >= 1 steps, each having run both update ops on one batch,
\* correct_count is the number of examples of all the batches whose label is
\* the top-1 prediction, incorrect_count the number of the others, their sum
\* the number of examples seen, and accuracy_op evaluates to correct_count over
\* that sum: the accuracy over all the batches, not over the last one.
C3_CumulativeAccuracy ==
  (accStep = <<>> /\ accSeen.steps >= 1) =>
    /\ correct_count = accSeen.top1
    /\ incorrect_count = accSeen.examples - accSeen.top1
    /\ correct_count + incorrect_count = accSeen.examples
    /\ AccuracyOp.kind = "finite"
    /\ AccuracyOp.num * accSeen.examples = accSeen.top1 * AccuracyOp.den
    /\ AccuracyOp.num * (correct_count + incorrect_count)
         = correct_count * AccuracyOp.den

\* Two steps done, the accuracy of the last batch differing from the
\* accuracy over both.
C3_Witness ==
  /\ accStep = <<>>
  /\ accSeen.steps = 2
  /\ accSeen.top1 * accSeen.lastExamples # accSeen.lastTop1 * accSeen.examples

\* C10: in every state, those between the two updates of a step included, the
\* two counters are non-negative and accuracy_op, when their sum is positive,
\* lies between 0 and 1; and no step of the program decreases a counter.
C10_CountersMonotoneAccuracyInRange ==
  /\ [](/\ correct_count >= 0
        /\ incorrect_count >= 0
        /\ correct_count + incorrect_count > 0 =>
             /\ AccuracyOp.kind = "finite"
             /\ AccuracyOp.den > 0
             /\ 0 <= AccuracyOp.num
             /\ AccuracyOp.num <= AccuracyOp.den)
  /\ [][/\ correct_count' >= correct_count
        /\ incorrect_count' >= incorrect_count]_vars

\* Between the two updates of a second step, the incorrect count updated
\* first, both counters positive.
C10_Witness ==
  /\ accStep # <<>>
  /\ accStep[1].left = {"correct_count_update"}
  /\ accSeen.steps = 1
  /\ correct_count > 0
  /\ incorrect_count > accSeen.examples - accSeen.top1

====
